---- MODULE Spec2Model ----
(***************************************************************************)
(* Task Manager (JustSimplyTom/HACKATHON): calendar grid construction,     *)
(* per-day task bucketing and status counts, overdue check, fuzzy search   *)
(* and Levenshtein distance, analytics and insight cards, the task         *)
(* collection's handlers and its persistence in localStorage, the theme,   *)
(* modelled from the TypeScript sources.                                   *)
(*                                                                         *)
(* Time is counted in ticks; a day has TicksPerDay ticks.  A JavaScript    *)
(* Date is the number of ticks since 1970-01-01T00:00Z.  The viewer's UTC  *)
(* offset tz is in ticks, and local fields of a Date are read at           *)
(* instant + tz, as the JavaScript runtime does.                           *)
(***************************************************************************)
EXTENDS Integers, Sequences, FiniteSets, TLC

VARIABLES
  tz,            \* the viewer's UTC offset, in ticks (east positive)
  now,           \* the ambient clock: what `new Date()` returns
  tasks,         \* the task collection handed to the views
  currentMonth,  \* CalendarView state: a Date
  selectedDate,  \* CalendarView state: a Date
  searchTerm,    \* TaskList state: the search box content
  taskText,      \* the text of the task the search filter is looking at
  str1,          \* levenshteinDistance: first argument
  str2,          \* levenshteinDistance: second argument
  distance,      \* levenshteinDistance: the value returned, or NoValue
  analytics,     \* AnalyticsView: the memoized analytics record, or NoAnalytics
  stored,        \* localStorage: the item under 'hackathon-tasks'
  formData,      \* TaskList state: the add/edit form
  editingTask,   \* TaskList state: the task being edited (its id), or Null
  showAddForm,   \* TaskList state: the add/edit form is shown
  saveDue,       \* AppContent: the save effect is scheduled (tasks changed)
  phase,         \* AppContent: "unmounted", "running" or "crashed"
  event,         \* the last submission, deletion request or save, and its outcome
  theme,         \* ThemeProvider state: the theme
  savedTheme,    \* localStorage: the item under 'task-manager-theme', or Null
  dataTheme,     \* the data-theme attribute of the document element, or Null
  prefersDark,   \* matchMedia('(prefers-color-scheme: dark)'): "unsupported",
                 \* "dark" or "no-preference"
  themeEffectDue \* ThemeProvider: the effect is scheduled (theme changed)

\* the state of the theme
themeVars == <<theme, savedTheme, dataTheme, prefersDark, themeEffectDue>>

\* the state of the task collection's handlers and of its persistence
appVars == <<analytics, stored, formData, editingTask, showAddForm, saveDue,
             phase, event, themeVars>>

vars == <<tz, now, tasks, currentMonth, selectedDate, searchTerm, taskText,
          str1, str2, distance, appVars>>

----------------------------------------------------------------------------
(* Bounds of the model *)

TicksPerDay == 4
MinYear == 2023
MaxYear == 2024
MaxTasks == 2
MaxSearchLen == 4
MaxWordLen == 3

TimeZones == {0 - 1, 0, 1}
NoValue == 0 - 1

\* JavaScript null and undefined
Null == [null |-> TRUE]
Undefined == [undefined |-> TRUE]

NoAnalytics == [none |-> TRUE]
NoEvent == [op |-> "none"]

\* the value of an empty <input type="date">
EmptyDeadline == [empty |-> TRUE]

\* useState({title: '', description: '', deadline: '', category: '',
\* priority: 'medium', estimatedTime: ''}): strings are sequences of
\* characters, a deadline is EmptyDeadline or a "YYYY-MM-DD" value
EmptyForm ==
  [title |-> <<>>, description |-> <<>>, deadline |-> EmptyDeadline,
   category |-> <<>>, priority |-> "medium", estimatedTime |-> <<>>]

\* the theme is light, saved and applied, and is not toggled
ThemeIdle ==
  /\ theme = "light"
  /\ savedTheme = [value |-> "light"]
  /\ dataTheme = [value |-> "light"]
  /\ prefersDark = "no-preference"
  /\ themeEffectDue = FALSE

\* the handlers of the task collection are not involved
AppIdle ==
  /\ ThemeIdle
  /\ analytics = NoAnalytics
  /\ stored = Null
  /\ formData = EmptyForm
  /\ editingTask = Null
  /\ showAddForm = FALSE
  /\ saveDue = FALSE
  /\ phase = "running"
  /\ event = NoEvent

----------------------------------------------------------------------------
(* The JavaScript Date object, as far as the program uses it *)

\* ECMAScript DayFromYear/MakeDay: day number of the first day of month mn
\* (0..11) of year y, counted from 1970-01-01
DayFromYearMonth(y, mn) ==
  LET yy  == IF mn <= 1 THEN y - 1 ELSE y
      era == yy \div 400
      yoe == yy - era * 400
      mp  == IF mn >= 2 THEN mn - 2 ELSE mn + 10
      doy == (153 * mp + 2) \div 5
      doe == yoe * 365 + yoe \div 4 - yoe \div 100 + doy
  IN  era * 146097 + doe - 719468

\* ECMAScript MakeDay(year, month, date): month and date outside their range
\* roll over into the neighbouring months and years
MakeDay(year, month, date) ==
  DayFromYearMonth(year + (month \div 12), month % 12) + date - 1

\* new Date(year, month, date): local midnight of that day
NewDate(year, month, date) == MakeDay(year, month, date) * TicksPerDay - tz

\* the local day number a Date falls on
LocalDay(d) == (d + tz) \div TicksPerDay

\* year, month (0..11) and day of month of a day number
CivilFromDay(z) ==
  LET zz  == z + 719468
      era == zz \div 146097
      doe == zz - era * 146097
      yoe == (doe - doe \div 1460 + doe \div 36524 - doe \div 146096) \div 365
      doy == doe - (365 * yoe + yoe \div 4 - yoe \div 100)
      mp  == (5 * doy + 2) \div 153
      dd  == doy - (153 * mp + 2) \div 5 + 1
      mm  == IF mp < 10 THEN mp + 2 ELSE mp - 10
      yy  == yoe + era * 400 + (IF mm <= 1 THEN 1 ELSE 0)
  IN  [year |-> yy, month |-> mm, date |-> dd]

getFullYear(d) == CivilFromDay(LocalDay(d)).year
getMonth(d) == CivilFromDay(LocalDay(d)).month
getDate(d) == CivilFromDay(LocalDay(d)).date
\* 0 = Sunday; 1970-01-01 was a Thursday
getDay(d) == (LocalDay(d) + 4) % 7

----------------------------------------------------------------------------
(* ISO strings.  "YYYY-MM-DD" is [ymd, hasTime |-> FALSE, time |-> 0];      *)
(* "YYYY-MM-DDTHH:mm:ss.sssZ" is [ymd, hasTime |-> TRUE, time], with time   *)
(* the tick of the UTC day.                                                *)

\* Date.prototype.toISOString: the UTC date and time of the instant
toISOString(d) ==
  [ymd |-> CivilFromDay(d \div TicksPerDay), hasTime |-> TRUE,
   time |-> d % TicksPerDay]

\* toISOString().split('T')[0]: the "YYYY-MM-DD" part
SplitT0(s) == s.ymd

\* String.prototype.startsWith with a "YYYY-MM-DD" argument: the first ten
\* characters of the string are that date
deadlineStartsWith(s, dateStr) == s.ymd = dateStr

\* new Date(string): a date-only string is UTC midnight, a full ISO string
\* is the instant it names
DateParse(s) ==
  MakeDay(s.ymd.year, s.ymd.month, s.ymd.date) * TicksPerDay
    + (IF s.hasTime THEN s.time ELSE 0)

\* the value of <input type="date">: "YYYY-MM-DD" of the day the user picked
DateInputValue(year, month, date) ==
  [ymd |-> [year |-> year, month |-> month, date |-> date],
   hasTime |-> FALSE, time |-> 0]

----------------------------------------------------------------------------
(* utils/storage.ts *)

isOverdueNotStrict(task) ==
  IF task.completed THEN FALSE ELSE DateParse(task.deadline) <= now

isOverdue(task) ==
  IF task.completed THEN FALSE ELSE DateParse(task.deadline) < now

getTasksForDate(ts, date) ==
  LET dateStr == SplitT0(toISOString(date))
  IN  SelectSeq(ts, LAMBDA task : deadlineStartsWith(task.deadline, dateStr))

----------------------------------------------------------------------------
(* CalendarView *)

\* Array.prototype.filter(...).length
CountIf(ts, P(_)) == Len(SelectSeq(ts, P))

getTaskCountsPendingIncomplete(date) ==
  LET dayTasks       == getTasksForDate(tasks, date)
      completedCount == CountIf(dayTasks, LAMBDA task : task.completed)
      overdueCount   == CountIf(dayTasks, LAMBDA task : isOverdue(task))
      pendingCount   == CountIf(dayTasks, LAMBDA task : ~task.completed)
  IN  [completedCount |-> completedCount, overdueCount |-> overdueCount,
       pendingCount |-> pendingCount, total |-> Len(dayTasks)]

getTaskCounts(date) ==
  LET dayTasks       == getTasksForDate(tasks, date)
      completedCount == CountIf(dayTasks, LAMBDA task : task.completed)
      overdueCount   == CountIf(dayTasks, LAMBDA task : isOverdue(task))
      pendingCount   == Len(dayTasks) - completedCount - overdueCount
  IN  [completedCount |-> completedCount, overdueCount |-> overdueCount,
       pendingCount |-> pendingCount, total |-> Len(dayTasks)]

\* a grid of five weeks
totalCellsFiveRows == 42 - 7

totalCells == 42

\* the last day of the month: day 0 of the next month
lastDayOfMonthOffByOne(year, month) == NewDate(year, month, 0)

lastDayOfMonth(year, month) == NewDate(year, month + 1, 0)

\* the day the leading cells count back from
prevMonthAnchor(year, month) == NewDate(year, month - 1, 0)

getDaysInMonth(date) ==
  LET year              == getFullYear(date)
      month             == getMonth(date)
      firstDay          == NewDate(year, month, 1)
      lastDay           == lastDayOfMonth(year, month)
      daysInMonth       == getDate(lastDay)
      startingDayOfWeek == getDay(firstDay)
      prevMonth         == prevMonthAnchor(year, month)
      prevMonthDays     == getDate(prevMonth)
      currentCells      == startingDayOfWeek + daysInMonth
      remainingCells    == totalCells - currentCells
  IN  [daysInMonth |-> daysInMonth,
       startingDayOfWeek |-> startingDayOfWeek,
       firstDay |-> firstDay,
       lastDay |-> lastDay,
       \* for (i = startingDayOfWeek - 1; i >= 0; i--): the k-th push has
       \* i = startingDayOfWeek - k
       prevMonthDaysToShow |->
         [k \in 1..startingDayOfWeek |->
            NewDate(year, month - 1, prevMonthDays - (startingDayOfWeek - k))],
       nextMonthDaysToShow |->
         [i \in 1..remainingCells |-> NewDate(year, month + 1, i)]]

toDateString(d) == LocalDay(d)

DayCell(key, cls, date, dayNumber) ==
  [key |-> key, cls |-> cls, date |-> date, dayNumber |-> dayNumber,
   isToday |-> toDateString(date) = toDateString(now),
   isSelected |-> toDateString(date) = toDateString(selectedDate),
   taskCounts |-> getTaskCounts(date)]

\* AnalyticsView: analytics.overdue
analyticsOverdue == CountIf(tasks, LAMBDA task : isOverdue(task))

\* the `days` array renderCalendar builds
renderCalendar ==
  LET g == getDaysInMonth(currentMonth)
      prevCells ==
        [k \in 1..Len(g.prevMonthDaysToShow) |->
           DayCell(k - 1, "prev-month", g.prevMonthDaysToShow[k],
                   getDate(g.prevMonthDaysToShow[k]))]
      curCells ==
        [day \in 1..g.daysInMonth |->
           DayCell(day, "current-month",
                   NewDate(getFullYear(currentMonth), getMonth(currentMonth), day),
                   day)]
      nextCells ==
        [k \in 1..Len(g.nextMonthDaysToShow) |->
           DayCell(k - 1, "next-month", g.nextMonthDaysToShow[k],
                   getDate(g.nextMonthDaysToShow[k]))]
  IN  prevCells \o curCells \o nextCells

\* the options of the year selector: ten years around the current one,
\* cut to the years the model explores
yearOptions ==
  {getFullYear(now) - 5 + i : i \in 0..9} \cap (MinYear..MaxYear)

monthOptions == 0..11

InYears(d) == getFullYear(d) \in MinYear..MaxYear

getPreviousMonth ==
  /\ currentMonth' = NewDate(getFullYear(currentMonth), getMonth(currentMonth) - 1, 1)
  /\ InYears(currentMonth')
  /\ UNCHANGED <<appVars, tz, now, tasks, selectedDate, searchTerm, taskText, str1, str2, distance>>

getNextMonth ==
  /\ currentMonth' = NewDate(getFullYear(currentMonth), getMonth(currentMonth) + 1, 1)
  /\ InYears(currentMonth')
  /\ UNCHANGED <<appVars, tz, now, tasks, selectedDate, searchTerm, taskText, str1, str2, distance>>

getToday ==
  /\ currentMonth' = now
  /\ selectedDate' = now
  /\ UNCHANGED <<appVars, tz, now, tasks, searchTerm, taskText, str1, str2, distance>>

handleMonthChange(newMonth) ==
  /\ currentMonth' = NewDate(getFullYear(currentMonth), newMonth, 1)
  /\ UNCHANGED <<appVars, tz, now, tasks, selectedDate, searchTerm, taskText, str1, str2, distance>>

handleYearChange(newYear) ==
  /\ currentMonth' = NewDate(newYear, getMonth(currentMonth), 1)
  /\ UNCHANGED <<appVars, tz, now, tasks, selectedDate, searchTerm, taskText, str1, str2, distance>>

\* onClick of a cell of the current month
ClickCurrentMonthCell ==
  \E days \in {renderCalendar} :
    \E k \in DOMAIN days :
      /\ days[k].cls = "current-month"
      /\ selectedDate' = days[k].date
      /\ UNCHANGED <<appVars, tz, now, tasks, currentMonth, searchTerm, taskText, str1, str2, distance>>

\* the instants at which the calendar is opened
GridNows ==
  {MakeDay(MaxYear, 0, 31) * TicksPerDay + 1,
   MakeDay(MinYear, 11, 31) * TicksPerDay + (TicksPerDay - 1)}

InitGrid ==
  /\ tz \in TimeZones
  /\ now \in GridNows
  /\ tasks = <<>>
  /\ currentMonth = now
  /\ selectedDate = now
  /\ searchTerm = <<>>
  /\ taskText = <<>>
  /\ str1 = <<>>
  /\ str2 = <<>>
  /\ distance = NoValue
  /\ AppIdle

NextGrid ==
  \/ getPreviousMonth
  \/ getNextMonth
  \/ getToday
  \/ \E newMonth \in monthOptions : handleMonthChange(newMonth)
  \/ \E newYear \in yearOptions : handleYearChange(newYear)

SpecGrid == InitGrid /\ [][NextGrid]_vars

----------------------------------------------------------------------------
(* The calendar's reference: the Gregorian calendar *)

IsLeapYear(y) == (y % 4 = 0 /\ y % 100 # 0) \/ y % 400 = 0

DaysOfMonth(y, m) ==
  IF m = 1 THEN (IF IsLeapYear(y) THEN 29 ELSE 28)
  ELSE IF m \in {3, 5, 8, 10} THEN 30 ELSE 31

CellsOf(grid, cls) == {k \in 1..Len(grid) : grid[k].cls = cls}

\* C1: for every year and month the grid has exactly 42 cells, and the
\* number of cells of the current month is the number of days that month
\* has in the Gregorian calendar (28, 29, 30 or 31)
GridHas42Cells ==
  \A grid \in {renderCalendar} :
    \A n \in {Cardinality(CellsOf(grid, "current-month"))} :
      /\ Len(grid) = 42
      /\ n = DaysOfMonth(getFullYear(currentMonth), getMonth(currentMonth))
      /\ n \in 28..31

\* C1 witness: the grid of February of a leap year
GridLeapFebruaryShown ==
  /\ getMonth(currentMonth) = 1
  /\ IsLeapYear(getFullYear(currentMonth))
  /\ Cardinality(CellsOf(renderCalendar, "current-month")) = 29

\* C2: the leading cells are the w days immediately preceding the 1st, in
\* ascending order, all of the previous month (w = weekday of the 1st)
LeadingCellsPrecedeFirst ==
  \A grid \in {renderCalendar} :
    \A first \in {NewDate(getFullYear(currentMonth), getMonth(currentMonth), 1)} :
      \A w \in {getDay(first)} :
        /\ CellsOf(grid, "prev-month") = 1..w
        /\ \A k \in 1..w :
             /\ LocalDay(grid[k].date) = LocalDay(first) - (w - k + 1)
             /\ getMonth(grid[k].date) = (getMonth(currentMonth) + 11) % 12
             /\ getFullYear(grid[k].date) =
                  (IF getMonth(currentMonth) = 0
                     THEN getFullYear(currentMonth) - 1
                     ELSE getFullYear(currentMonth))

----------------------------------------------------------------------------
(* The calendar's day panel: tasks of a day, their counts, overdue tasks *)

\* the day the tasks are due on, 2024-01-10
FirstDueDay == MakeDay(2024, 0, 10)

DueDays == {FirstDueDay}

\* the cells looked at: the due day, the day before and the day after
ViewDays == (FirstDueDay - 1)..(FirstDueDay + 1)

\* deadlines as the program stores them: "YYYY-MM-DD" from the form's date
\* input, and full ISO strings from generateSampleTasks, early and late in
\* the UTC day
Deadlines ==
  {DateInputValue(CivilFromDay(d).year, CivilFromDay(d).month, CivilFromDay(d).date) :
     d \in DueDays}
  \cup {toISOString(d * TicksPerDay + t) : d \in DueDays, t \in {0, TicksPerDay - 1}}

DayTasks == [deadline : Deadlines, completed : BOOLEAN]

FirstNow == (FirstDueDay - 1) * TicksPerDay + (TicksPerDay - 1)
LastNow == (FirstDueDay + 1) * TicksPerDay + 1

\* the clock advances
Tick ==
  /\ now < LastNow
  /\ now' = now + 1
  /\ UNCHANGED <<appVars, tz, tasks, currentMonth, selectedDate, searchTerm, taskText, str1, str2, distance>>

InView(d) == LocalDay(d) \in ViewDays

\* a click on a day of the current month, among the cells looked at
ClickViewedDay ==
  /\ ClickCurrentMonthCell
  /\ InView(selectedDate')

InitDay ==
  /\ tz \in TimeZones
  /\ now = FirstNow
  /\ tasks \in UNION {[1..n -> DayTasks] : n \in 0..MaxTasks}
  /\ currentMonth = now
  /\ selectedDate = now
  /\ searchTerm = <<>>
  /\ taskText = <<>>
  /\ str1 = <<>>
  /\ str2 = <<>>
  /\ distance = NoValue
  /\ AppIdle

NextDay ==
  \/ Tick
  \/ ClickViewedDay

SpecDay == InitDay /\ [][NextDay]_vars

\* the cell of day d as renderCalendar builds it: local midnight
CellDate(d) ==
  NewDate(CivilFromDay(d).year, CivilFromDay(d).month, CivilFromDay(d).date)

Jan10 == DateInputValue(2024, 0, 10)

NowIsJan11 == CivilFromDay(LocalDay(now)) = [year |-> 2024, month |-> 0, date |-> 11]

\* C8: a task is overdue exactly when it is not completed and its deadline
\* instant is strictly before the current instant; a completed task is never
\* overdue, and an incomplete task due 2024-01-10 is overdue on 2024-01-11
OverdueIffIncompleteAndPast ==
  /\ \A i \in DOMAIN tasks :
       /\ isOverdue(tasks[i]) <=>
            (~tasks[i].completed /\ DateParse(tasks[i].deadline) < now)
       /\ tasks[i].completed => ~isOverdue(tasks[i])
       /\ (~tasks[i].completed /\ tasks[i].deadline = Jan10 /\ NowIsJan11)
            => isOverdue(tasks[i])
  /\ analyticsOverdue =
       Cardinality({i \in DOMAIN tasks :
                      ~tasks[i].completed /\ DateParse(tasks[i].deadline) < now})

\* C8 witness: on 2024-01-11 the collection holds an overdue task due
\* 2024-01-10 and a completed one with the same deadline
OverdueScenarioReached ==
  /\ NowIsJan11
  /\ \E i, j \in DOMAIN tasks :
       /\ tasks[i].deadline = Jan10 /\ ~tasks[i].completed /\ isOverdue(tasks[i])
       /\ tasks[j].deadline = Jan10 /\ tasks[j].completed /\ ~isOverdue(tasks[j])

\* C9: for every cell, completed + overdue + pending = total, no count is
\* negative, overdue counts the incomplete tasks of the cell whose deadline
\* is strictly before now, and pending = total - completed - overdue
TaskCountsPartitionDay ==
  \A date \in {CellDate(d) : d \in ViewDays} \cup {selectedDate} :
    \A c \in {getTaskCounts(date)} :
      \A dayTasks \in {getTasksForDate(tasks, date)} :
        /\ c.total = Len(dayTasks)
        /\ c.completedCount + c.overdueCount + c.pendingCount = c.total
        /\ c.completedCount >= 0 /\ c.overdueCount >= 0 /\ c.pendingCount >= 0
        /\ c.overdueCount =
             Cardinality({i \in DOMAIN dayTasks :
                            ~dayTasks[i].completed
                            /\ DateParse(dayTasks[i].deadline) < now})
        /\ c.pendingCount = c.total - c.completedCount - c.overdueCount

\* C9 witness: the selected day shows one overdue and one completed task
DayWithOverdueAndCompleted ==
  \E c \in {getTaskCounts(selectedDate)} :
    c.overdueCount = 1 /\ c.completedCount = 1 /\ c.pendingCount = 0

\* the local calendar day a deadline falls on: the day a date-only deadline
\* names, the viewer's local day of the instant a full ISO deadline names
DeadlineDay(s) ==
  IF s.hasTime THEN LocalDay(DateParse(s))
  ELSE MakeDay(s.ymd.year, s.ymd.month, s.ymd.date)

\* C10: for every cell built as local midnight, getTasksForDate returns
\* exactly the tasks whose deadline falls on the cell's local calendar day,
\* whatever the time of day of the deadline and the viewer's UTC offset
TasksForDateAreLocalDay ==
  \A d \in ViewDays :
    getTasksForDate(tasks, CellDate(d)) =
      SelectSeq(tasks, LAMBDA task : DeadlineDay(task.deadline) = d)

----------------------------------------------------------------------------
(* Strings are sequences of one-character strings *)

LowerLetters == {"t", "e", "s", "a", "b", "c", "k", "i", "n", "g"}
UpperLetters == {"T", "E", "S"}
Whitespace == {" "}

\* \w of a JavaScript regular expression: letters, digits and the underscore
WordChars == LowerLetters \cup UpperLetters \cup {"_"}

toLowerCaseChar(c) ==
  IF c = "T" THEN "t" ELSE IF c = "E" THEN "e" ELSE IF c = "S" THEN "s" ELSE c

toUpperCaseChar(c) ==
  IF c = "t" THEN "T" ELSE IF c = "e" THEN "E" ELSE IF c = "s" THEN "S" ELSE c

toLowerCase(s) == [i \in 1..Len(s) |-> toLowerCaseChar(s[i])]

\* String.prototype.trim
trim(s) ==
  LET inked == {i \in 1..Len(s) : s[i] \notin Whitespace}
  IN  IF inked = {} THEN <<>>
      ELSE SubSeq(s, CHOOSE i \in inked : \A j \in inked : i <= j,
                     CHOOSE i \in inked : \A j \in inked : i >= j)

\* replace(/[^\w\s]/g, '')
removeNonWord(s) == SelectSeq(s, LAMBDA c : c \in WordChars \cup Whitespace)

\* split(/\s+/): the pieces between the runs of whitespace, the empty piece
\* before a leading run and after a trailing run included
RECURSIVE splitWhitespace(_)
splitWhitespace(s) ==
  LET blanks == {i \in 1..Len(s) : s[i] \in Whitespace}
  IN  IF blanks = {} THEN <<s>>
      ELSE LET i    == CHOOSE b \in blanks : \A c \in blanks : b <= c
               rest == {j \in (i + 1)..Len(s) : s[j] \notin Whitespace}
               j    == IF rest = {} THEN Len(s) + 1
                       ELSE CHOOSE r \in rest : \A q \in rest : r <= q
           IN  <<SubSeq(s, 1, i - 1)>> \o splitWhitespace(SubSeq(s, j, Len(s)))

\* .filter(word => word.length > 0)
nonEmptyWords(words) == SelectSeq(words, LAMBDA word : Len(word) > 0)

\* String.prototype.startsWith
startsWith(text, word) ==
  Len(word) <= Len(text) /\ SubSeq(text, 1, Len(word)) = word

\* String.prototype.includes
includes(text, word) ==
  \E k \in 0..(Len(text) - Len(word)) : SubSeq(text, k + 1, k + Len(word)) = word

Min2(a, b) == IF a <= b THEN a ELSE b

----------------------------------------------------------------------------
(* TaskList: fuzzy search *)

indicatorAlwaysOne(s1, s2, i, j) == 1

\* the cost of aligning str1[i] with str2[j]
indicator(s1, s2, i, j) == IF s1[i] = s2[j] THEN 0 ELSE 1

levenshteinDistance(s1, s2) ==
  LET matrix[j \in 0..Len(s2), i \in 0..Len(s1)] ==
        IF j = 0 THEN i
        ELSE IF i = 0 THEN j
        ELSE Min2(Min2(matrix[j, i - 1] + 1, matrix[j - 1, i] + 1),
                  matrix[j - 1, i - 1] + indicator(s1, s2, i, j))
  IN  matrix[Len(s2), Len(s1)]

maxDistanceHalf(searchWord, textWord) == Min2(Len(searchWord), Len(textWord)) \div 2

maxDistance(searchWord, textWord) == Min2(Len(searchWord), Len(textWord)) \div 3

\* the predicate of textWords.some(...)
wordMatches(searchWord, textWord) ==
  IF textWord = searchWord THEN TRUE
  ELSE IF startsWith(textWord, searchWord) THEN TRUE
  ELSE IF Len(searchWord) > 2 /\ includes(textWord, searchWord) THEN TRUE
  ELSE IF Len(searchWord) > 3 /\ Len(textWord) > 3
    THEN levenshteinDistance(searchWord, textWord) <= maxDistance(searchWord, textWord)
  ELSE FALSE

searchWordsOf(search) == nonEmptyWords(splitWhitespace(removeNonWord(search)))

textWordsOfCaseKept(taskTxt) ==
  nonEmptyWords(splitWhitespace(removeNonWord(taskTxt)))

textWordsOf(taskTxt) ==
  nonEmptyWords(splitWhitespace(removeNonWord(toLowerCase(taskTxt))))

fuzzySearch(term, text) ==
  IF trim(term) = <<>> THEN TRUE
  ELSE LET search      == trim(toLowerCase(term))
           searchWords == searchWordsOf(search)
           textWords   == textWordsOf(text)
       IN  \A a \in 1..Len(searchWords) :
             \E b \in 1..Len(textWords) : wordMatches(searchWords[a], textWords[b])

\* formatText: trimmed, first character in upper case, a final period unless
\* the text ends with . ! or ?
formatText(text) ==
  IF trim(text) = <<>> THEN text
  ELSE LET trimmed     == trim(text)
           capitalized == <<toUpperCaseChar(trimmed[1])>> \o Tail(trimmed)
       IN  IF capitalized[Len(capitalized)] \in {".", "!", "?"}
             THEN capitalized
             ELSE Append(capitalized, ".")

\* the characters typed into the search box
SearchChars == {"t", "e", "s", "T", "_", ".", " "}

\* what the speech recognition hears
Transcripts == {<<"t", "e", "s", "t">>, <<"s", "e", "t", " ", "t", "e">>}

\* titles and descriptions of the tasks searched
TaskTexts ==
  {<<>>,
   <<"t", "e", "s", "t">>,
   <<"S", "e", "t", " ", "t", "e", "s", "t", "s", ".">>,
   <<"t", "_", "e", " ", "s", "t">>,
   <<"e", ".", "t", " ", "t", "e", "e">>}

\* onChange of the search box: a character is typed
TypeSearchChar(c) ==
  /\ Len(searchTerm) < MaxSearchLen
  /\ searchTerm' = Append(searchTerm, c)
  /\ UNCHANGED <<appVars, tz, now, tasks, currentMonth, selectedDate, taskText, str1, str2, distance>>

\* onChange of the search box: the last character is deleted
DeleteSearchChar ==
  /\ Len(searchTerm) > 0
  /\ searchTerm' = SubSeq(searchTerm, 1, Len(searchTerm) - 1)
  /\ UNCHANGED <<appVars, tz, now, tasks, currentMonth, selectedDate, taskText, str1, str2, distance>>

\* recognition.onresult of the search box
SearchSpeechResult(transcript) ==
  /\ searchTerm' = formatText(transcript)
  /\ UNCHANGED <<appVars, tz, now, tasks, currentMonth, selectedDate, taskText, str1, str2, distance>>

InitSearch ==
  /\ tz = 0
  /\ now = FirstNow
  /\ tasks = <<>>
  /\ currentMonth = now
  /\ selectedDate = now
  /\ searchTerm = <<>>
  /\ taskText \in TaskTexts
  /\ str1 = <<>>
  /\ str2 = <<>>
  /\ distance = NoValue
  /\ AppIdle

NextSearch ==
  \/ \E c \in SearchChars : TypeSearchChar(c)
  \/ DeleteSearchChar
  \/ \E transcript \in Transcripts : SearchSpeechResult(transcript)

SpecSearch == InitSearch /\ [][NextSearch]_vars

\* the normalization the matching rule is stated over: lower case, only
\* alphanumeric characters and whitespace kept, split on whitespace, empty
\* tokens dropped
Alphanumerics == LowerLetters \cup UpperLetters

RuleTokens(s) ==
  nonEmptyWords(splitWhitespace(
    SelectSeq(toLowerCase(s), LAMBDA c : c \in Alphanumerics \cup Whitespace)))

RuleTokenMatches(q, t) ==
  \/ q = t
  \/ startsWith(t, q)
  \/ Len(q) > 2 /\ includes(t, q)
  \/ Len(q) > 3 /\ Len(t) > 3
       /\ levenshteinDistance(q, t) <= Min2(Len(q), Len(t)) \div 3

RuleMatches(query, text) ==
  \A a \in DOMAIN RuleTokens(query) :
    \E b \in DOMAIN RuleTokens(text) :
      RuleTokenMatches(RuleTokens(query)[a], RuleTokens(text)[b])

\* C3: fuzzySearch is true exactly when every token of the normalized query
\* matches some token of the normalized text by equality, prefix, substring
\* (query token longer than 2) or edit distance (both longer than 3)
FuzzySearchIffRule ==
  fuzzySearch(searchTerm, taskText) <=> RuleMatches(searchTerm, taskText)

Tset == <<"t", "s", "e", "t">>
Test == <<"t", "e", "s", "t">>
Tess == <<"t", "e", "s", "s">>

\* C4 as stated: searching "tset" finds "test"
TsetMatchesTest ==
  (searchTerm = Tset /\ taskText = Test) => fuzzySearch(searchTerm, taskText)

\* C4 as amended: searching "tset" does not find "test", the transposition
\* being two substitutions (distance 2 > floor(4/3) = 1), while a length-4
\* word with one substituted letter is found
TsetDoesNotMatchTest ==
  /\ (searchTerm = Tset /\ taskText = Test) =>
       /\ ~fuzzySearch(searchTerm, taskText)
       /\ levenshteinDistance(searchTerm, taskText) = 2
       /\ maxDistance(searchTerm, taskText) = 1
  /\ (searchTerm = Tess /\ taskText = Test) => fuzzySearch(searchTerm, taskText)

\* C4 witness: "tset" is typed while the task text is "test"
TsetSearched == searchTerm = Tset /\ taskText = Test /\ ~fuzzySearch(searchTerm, taskText)

\* C5: a query that is empty, only whitespace, or normalizes to no token
\* matches every text
VacuousQueryMatches ==
  (trim(searchTerm) = <<>> \/ RuleTokens(searchTerm) = <<>>)
    => fuzzySearch(searchTerm, taskText)

\* the words of a text as written: what stands between its whitespace
WrittenWords(text) == nonEmptyWords(splitWhitespace(text))

----------------------------------------------------------------------------
(* levenshteinDistance on its own *)

LevChars == {"a", "b"}

LevStrings == UNION {[1..n -> LevChars] : n \in 0..MaxWordLen}

Abc == <<"a", "b", "c">>
Kitten == <<"k", "i", "t", "t", "e", "n">>
Sitting == <<"s", "i", "t", "t", "i", "n", "g">>

LevInputs ==
  (LevStrings \X LevStrings)
    \cup {<<(<<>>), Abc>>, <<Kitten, Sitting>>, <<Sitting, Kitten>>, <<Tset, Test>>}

\* levenshteinDistance(str1, str2) is called and returns
CallLevenshteinDistance ==
  /\ distance = NoValue
  /\ distance' = levenshteinDistance(str1, str2)
  /\ UNCHANGED <<appVars, tz, now, tasks, currentMonth, selectedDate, searchTerm, taskText, str1, str2>>

InitLevenshtein ==
  /\ tz = 0
  /\ now = FirstNow
  /\ tasks = <<>>
  /\ currentMonth = now
  /\ selectedDate = now
  /\ searchTerm = <<>>
  /\ taskText = <<>>
  /\ \E input \in LevInputs : str1 = input[1] /\ str2 = input[2]
  /\ distance = NoValue
  /\ AppIdle

NextLevenshtein == CallLevenshteinDistance

SpecLevenshtein == InitLevenshtein /\ [][NextLevenshtein]_vars

\* the strings one insertion, deletion or substitution away from s
OneEdit(s) ==
  {SubSeq(s, 1, k) \o <<c>> \o SubSeq(s, k + 1, Len(s)) :
     k \in (IF Len(s) < MaxWordLen THEN 0..Len(s) ELSE {}), c \in LevChars}
  \cup {SubSeq(s, 1, k - 1) \o SubSeq(s, k + 1, Len(s)) : k \in 1..Len(s)}
  \cup {[s EXCEPT ![k] = c] : k \in 1..Len(s), c \in LevChars}

\* the strings at most n edits away from s
RECURSIVE WithinEdits(_, _)
WithinEdits(s, n) ==
  IF n = 0 THEN {s}
  ELSE UNION {OneEdit(x) \cup {x} : x \in WithinEdits(s, n - 1)}

\* the edit distance: the length of a shortest edit script from a to b
EditScriptLength(a, b) ==
  CHOOSE n \in 0..(Len(a) + Len(b)) :
    /\ b \in WithinEdits(a, n)
    /\ \A m \in 0..(n - 1) : b \notin WithinEdits(a, m)

\* C7: levenshteinDistance is the standard edit distance: a natural number,
\* the length of a shortest script of insertions, deletions and
\* substitutions, 0 between equal strings, 3 from "" to "abc" and from
\* "kitten" to "sitting"
LevenshteinIsEditDistance ==
  distance # NoValue =>
    /\ distance \in Nat
    /\ (str1 = str2 => distance = 0)
    /\ (str1 \in LevStrings /\ str2 \in LevStrings)
         => distance = EditScriptLength(str1, str2)
    /\ (str1 = <<>> /\ str2 = Abc) => distance = 3
    /\ (str1 = Kitten /\ str2 = Sitting) => distance = 3

\* C7 witness: the distance from "kitten" to "sitting" has been computed
KittenSittingComputed == str1 = Kitten /\ str2 = Sitting /\ distance = 3

----------------------------------------------------------------------------
(* JavaScript Numbers: IEEE 754 binary64, round to nearest, ties to even.   *)
(* A nonzero Number is sign * (bits read as a binary numeral) scaled so     *)
(* that bits[1], which is 1, has weight 2^exp.                              *)

MantissaBits == 53

Zero == [sign |-> 1, bits |-> <<>>, exp |-> 0]

Abs(n) == IF n < 0 THEN 0 - n ELSE n

RECURSIVE Pow2(_)
Pow2(n) == IF n = 0 THEN 1 ELSE 2 * Pow2(n - 1)

\* the exponent e with t * 2^e <= c < t * 2^(e+1), for c > 0 and t > 0
ExponentOf(c, t) ==
  IF c >= t
    THEN CHOOSE e \in 0..20 : t * Pow2(e) <= c /\ c < t * Pow2(e + 1)
    ELSE 0 - (CHOOSE e \in 1..20 : c * Pow2(e) >= t /\ c * Pow2(e - 1) < t)

\* n further quotient bits of r / t (r < t), then 1 if a remainder is left
RECURSIVE LongDivision(_, _, _)
LongDivision(r, t, n) ==
  IF n = 0 THEN <<IF r = 0 THEN 0 ELSE 1>>
  ELSE <<(2 * r) \div t>> \o LongDivision((2 * r) % t, t, n - 1)

\* bits + 1 in binary, on a mantissa
Increment(x) ==
  LET zeros == {i \in 1..MantissaBits : x.bits[i] = 0}
  IN  IF zeros = {}
        THEN [sign |-> x.sign,
              bits |-> [i \in 1..MantissaBits |-> IF i = 1 THEN 1 ELSE 0],
              exp  |-> x.exp + 1]
        ELSE LET k == CHOOSE z \in zeros : \A y \in zeros : y <= z
             IN  [sign |-> x.sign,
                  bits |-> [i \in 1..MantissaBits |->
                              IF i < k THEN x.bits[i] ELSE IF i = k THEN 1 ELSE 0],
                  exp  |-> x.exp]

\* round to nearest, ties to even: all is the exact binary numeral, its
\* first bit 1 of weight 2^exp, and sticky says nonzero bits follow it
RoundToNearestEven(sign, all, exp, sticky) ==
  LET kept  == [sign |-> sign,
                bits |-> [i \in 1..MantissaBits |-> IF i <= Len(all) THEN all[i] ELSE 0],
                exp  |-> exp]
      guard == IF Len(all) > MantissaBits THEN all[MantissaBits + 1] ELSE 0
      below == sticky \/ \E i \in (MantissaBits + 2)..Len(all) : all[i] = 1
  IN  IF guard = 1 /\ (below \/ kept.bits[MantissaBits] = 1) THEN Increment(kept)
      ELSE kept

\* c / t for an integer c and a positive integer t
NumberDivide(c, t) ==
  IF c = 0 THEN Zero
  ELSE LET e      == ExponentOf(Abs(c), t)
           cc     == IF e >= 0 THEN Abs(c) ELSE Abs(c) * Pow2(0 - e)
           tt     == IF e >= 0 THEN t * Pow2(e) ELSE t
           digits == <<1>> \o LongDivision(cc - tt, tt, MantissaBits)
       IN  RoundToNearestEven(IF c < 0 THEN 0 - 1 ELSE 1,
                              SubSeq(digits, 1, MantissaBits + 1), e,
                              digits[MantissaBits + 2] = 1)

\* the binary numeral of n, least significant bit first
RECURSIVE BinaryLSB(_)
BinaryLSB(n) == IF n = 0 THEN <<>> ELSE <<n % 2>> \o BinaryLSB(n \div 2)

\* bits[1..i] times k plus carry, least significant bit first
RECURSIVE MultiplyLSB(_, _, _, _)
MultiplyLSB(bits, i, k, carry) ==
  IF i = 0 THEN BinaryLSB(carry)
  ELSE <<(bits[i] * k + carry) % 2>>
         \o MultiplyLSB(bits, i - 1, k, (bits[i] * k + carry) \div 2)

Reverse(seq) == [i \in 1..Len(seq) |-> seq[Len(seq) + 1 - i]]

\* x * k for a Number x and a positive integer k
NumberMultiply(x, k) ==
  IF x = Zero THEN Zero
  ELSE \* the product of the mantissa, an exact binary numeral
       LET product == Reverse(MultiplyLSB(x.bits, MantissaBits, k, 0))
       IN  RoundToNearestEven(x.sign, product,
                              x.exp + (Len(product) - MantissaBits), FALSE)

\* Math.round: the nearest integer, a tie going towards +Infinity
MathRound(x) ==
  IF x = Zero \/ x.exp < 0 - 1 THEN 0
  ELSE LET whole[i \in 0..(x.exp + 1)] ==
             IF i = 0 THEN 0 ELSE 2 * whole[i - 1] + x.bits[i]
           half == x.exp + 2 <= MantissaBits /\ x.bits[x.exp + 2] = 1
           rest == \E i \in (x.exp + 3)..MantissaBits : x.bits[i] = 1
       IN  IF x.sign = 1
             THEN whole[x.exp + 1] + (IF half THEN 1 ELSE 0)
             ELSE 0 - (whole[x.exp + 1] + (IF half /\ rest THEN 1 ELSE 0))

FloorDays(d) == d \div TicksPerDay

\* Math.ceil(d / MS_PER_DAY) for an integer number of ticks d
CeilDays(d) == 0 - ((0 - d) \div TicksPerDay)
----------------------------------------------------------------------------
(* AnalyticsView: the analytics record *)

\* task.completedAt is truthy
HasCompletedAt(task) ==
  "completedAt" \in DOMAIN task /\ task.completedAt # Undefined

\* d.setDate(date): the local day of the month is replaced, the local time of
\* day kept
setDate(d, date) ==
  NewDate(getFullYear(d), getMonth(d), date) + ((d + tz) % TicksPerDay)

\* completedTasks.reduce((sum, task) => sum + diffInDays, 0)
RECURSIVE sumDiffInDays(_, _)
sumDiffInDays(completedTasks, i) ==
  IF i = 0 THEN 0
  ELSE sumDiffInDays(completedTasks, i - 1)
         + CeilDays(DateParse(completedTasks[i].completedAt)
                      - DateParse(completedTasks[i].createdAt))

\* Math.round(avgCompletionTime * 10) / 10
roundToOneDecimal(x) == NumberDivide(MathRound(NumberMultiply(x, 10)), 10)

analyticsOf(ts) ==
  LET total          == Len(ts)
      completed      == CountIf(ts, LAMBDA task : task.completed)
      pending        == CountIf(ts, LAMBDA task : ~task.completed)
      overdue        == CountIf(ts, isOverdue)
      sevenDaysAgo   == setDate(now, getDate(now) - 7)
      completedTasks == SelectSeq(ts, LAMBDA task : task.completed /\ HasCompletedAt(task))
      avgCompletionTime ==
        IF Len(completedTasks) > 0
          THEN NumberDivide(sumDiffInDays(completedTasks, Len(completedTasks)),
                            Len(completedTasks))
          ELSE Zero
  IN  [total             |-> total,
       completed         |-> completed,
       pending           |-> pending,
       overdue           |-> overdue,
       completionRate    |-> IF total > 0
                               THEN MathRound(NumberMultiply(NumberDivide(completed, total), 100))
                               ELSE 0,
       overdueRate       |-> IF total > 0
                               THEN MathRound(NumberMultiply(NumberDivide(overdue, total), 100))
                               ELSE 0,
       recentlyCompleted |-> CountIf(ts, LAMBDA task :
                               task.completed /\ HasCompletedAt(task)
                               /\ DateParse(task.completedAt) >= sevenDaysAgo),
       recentlyCreated   |-> CountIf(ts, LAMBDA task : DateParse(task.createdAt) >= sevenDaysAgo),
       avgCompletionTime |-> roundToOneDecimal(avgCompletionTime)]

\* the task lists handed to AnalyticsView
MaxAnalyticsTasks == 40
MaxLatencyTasks == 4

AnalyticsNow == MakeDay(2024, 0, 20) * TicksPerDay + 1

AnalyticsCreated == AnalyticsNow - 5 * TicksPerDay

CompletedTask(latency) ==
  [deadline    |-> toISOString(AnalyticsNow - 3 * TicksPerDay),
   completed   |-> TRUE,
   createdAt   |-> toISOString(AnalyticsCreated),
   completedAt |-> toISOString(AnalyticsCreated + latency)]

OverdueTask ==
  [deadline  |-> toISOString(AnalyticsNow - 1),
   completed |-> FALSE,
   createdAt |-> toISOString(AnalyticsCreated)]

PendingTask ==
  [deadline  |-> toISOString(AnalyticsNow + TicksPerDay),
   completed |-> FALSE,
   createdAt |-> toISOString(AnalyticsCreated)]

\* completed, with no completedAt (a stored task the handlers did not write)
CompletedNoStampTask ==
  [deadline  |-> toISOString(AnalyticsNow - 3 * TicksPerDay),
   completed |-> TRUE,
   createdAt |-> toISOString(AnalyticsCreated)]

\* t tasks, c of them completed and o of them overdue
CountedTasks(t, c, o) ==
  [i \in 1..t |-> IF i <= c THEN CompletedTask(TicksPerDay)
                  ELSE IF i <= c + o THEN OverdueTask
                  ELSE PendingTask]

\* completion latencies in ticks: within the first day, over a day, before
\* the creation (generateSampleTasks can stamp such a completion)
Latencies == {0, 1, TicksPerDay + 1, 0 - (TicksPerDay + 1)}

LatencyTasks ==
  {CompletedTask(l) : l \in Latencies} \cup {PendingTask, CompletedNoStampTask}

\* the lengths of long lists, one task of which is completed
LongLists == {200, 201}

\* AnalyticsView renders: useMemo computes the analytics of the tasks prop
RenderAnalytics ==
  /\ analytics = NoAnalytics
  /\ analytics' = analyticsOf(tasks)
  /\ UNCHANGED <<tz, now, tasks, currentMonth, selectedDate, searchTerm, taskText,
                 str1, str2, distance, stored, formData, editingTask, showAddForm,
                 saveDue, phase, event, themeVars>>

InitAnalytics ==
  /\ tz = 0
  /\ now = AnalyticsNow
  /\ \/ \E t \in 0..MaxAnalyticsTasks : \E c \in 0..t : \E o \in 0..(t - c) :
          tasks = CountedTasks(t, c, o)
     \/ tasks \in UNION {[1..n -> LatencyTasks] : n \in 1..MaxLatencyTasks}
     \/ \E t \in LongLists : tasks = CountedTasks(t, 1, 0)
  /\ currentMonth = now
  /\ selectedDate = now
  /\ searchTerm = <<>>
  /\ taskText = <<>>
  /\ str1 = <<>>
  /\ str2 = <<>>
  /\ distance = NoValue
  /\ AppIdle

NextAnalytics == RenderAnalytics

SpecAnalytics == InitAnalytics /\ [][NextAnalytics]_vars

\* round-half-up of the exact quotient 100 * part / whole
HalfUpPercent(part, whole) ==
  IF whole = 0 THEN 0 ELSE (200 * part + whole) \div (2 * whole)

PastDue(ts) ==
  Cardinality({i \in DOMAIN ts : ~ts[i].completed /\ DateParse(ts[i].deadline) < now})

Done(ts) == Cardinality({i \in DOMAIN ts : ts[i].completed})

\* C11: completionRate and overdueRate are the round-half-up percentages of
\* completed and overdue tasks, 0 for an empty list; pending is total minus
\* completed, overdue counts the incomplete tasks due before now, and 3
\* completed tasks out of 10 give a completion rate of 30
RatesAreHalfUpPercentages ==
  analytics # NoAnalytics =>
    /\ analytics.total = Len(tasks)
    /\ analytics.completed = Done(tasks)
    /\ analytics.pending = analytics.total - analytics.completed
    /\ analytics.overdue = PastDue(tasks)
    /\ analytics.completionRate = HalfUpPercent(Done(tasks), Len(tasks))
    /\ analytics.overdueRate = HalfUpPercent(PastDue(tasks), Len(tasks))
    /\ (Len(tasks) = 10 /\ Done(tasks) = 3) => analytics.completionRate = 30

\* the tasks the average is taken over
Stamped(ts) == {i \in DOMAIN ts : ts[i].completed /\ HasCompletedAt(ts[i])}

\* the least number of whole days covering d ticks
DaysCovering(d) ==
  CHOOSE k \in (0 - 3)..3 : k * TicksPerDay >= d /\ (k - 1) * TicksPerDay < d

RECURSIVE TotalDays(_, _)
TotalDays(ts, rest) ==
  IF rest = {} THEN 0
  ELSE LET i == CHOOSE j \in rest : TRUE
       IN  DaysCovering(DateParse(ts[i].completedAt) - DateParse(ts[i].createdAt))
             + TotalDays(ts, rest \ {i})

\* C12: avgCompletionTime is the mean of ceil((completedAt - createdAt) / day)
\* over the completed tasks that have a completedAt, rounded to one decimal
\* (a tenth nearest to the mean), and 0 when there is no such task
AvgCompletionTimeIsRoundedMean ==
  analytics # NoAnalytics =>
    \A n \in {Cardinality(Stamped(tasks))} :
      \A sum \in {TotalDays(tasks, Stamped(tasks))} :
        IF n = 0 THEN analytics.avgCompletionTime = Zero
        ELSE \E tenths \in (0 - 30)..30 :
               /\ 2 * Abs(10 * sum - tenths * n) <= n
               /\ analytics.avgCompletionTime = NumberDivide(tenths, 10)

\* C12 witness: three stamped tasks whose days total 1 and a completed task
\* without a completedAt, which is left out: the mean 1/3 is shown as 0.3
AvgOfMixedLatenciesShown ==
  /\ analytics # NoAnalytics
  /\ Len(tasks) = 4
  /\ Cardinality(Stamped(tasks)) = 3
  /\ \E i \in DOMAIN tasks : tasks[i] = CompletedNoStampTask
  /\ TotalDays(tasks, Stamped(tasks)) = 1
  /\ analytics.avgCompletionTime = NumberDivide(3, 10)

----------------------------------------------------------------------------
(* The task collection and its handlers (TaskList, CalendarView) *)

MaxRandom == 1
SampleCount == 2

AppFirstNow == MakeDay(2024, 0, 10) * TicksPerDay

\* what Math.random() can return, as far as generateId tells it apart
RandomSuffixes == 0..MaxRandom

\* Date.now().toString(36) + Math.random().toString(36).substr(2)
generateId(random) == [time |-> now, random |-> random]

\* {...task, key: value, ...}
Spread(task, overrides) ==
  [k \in DOMAIN task \cup DOMAIN overrides |->
     IF k \in DOMAIN overrides THEN overrides[k] ELSE task[k]]

\* value || undefined, for a string
StringOrUndefined(str) == IF str = <<>> THEN Undefined ELSE [string |-> str]

DigitValue(c) ==
  CHOOSE d \in 0..9 : <<"0", "1", "2", "3", "4", "5", "6", "7", "8", "9">>[d + 1] = c

\* the value of a numeral of whole digits
RECURSIVE WholeValue(_)
WholeValue(digits) ==
  IF digits = <<>> THEN 0
  ELSE 10 * WholeValue(SubSeq(digits, 1, Len(digits) - 1)) + DigitValue(digits[Len(digits)])

\* parseFloat of what the estimated-time input (step 0.5) holds: digits,
\* then ".5" or nothing
parseFloat(str) ==
  IF Len(str) > 2 /\ SubSeq(str, Len(str) - 1, Len(str)) = <<".", "5">>
    THEN NumberDivide(2 * WholeValue(SubSeq(str, 1, Len(str) - 2)) + 1, 2)
    ELSE NumberDivide(WholeValue(str), 1)

RECURSIVE DecimalDigits(_)
DecimalDigits(n) ==
  IF n < 10 THEN << <<"0", "1", "2", "3", "4", "5", "6", "7", "8", "9">>[n + 1] >>
  ELSE DecimalDigits(n \div 10) \o DecimalDigits(n % 10)

\* Number.prototype.toString of a non-negative multiple of 0.5
NumberToString(x) ==
  LET twice == MathRound(NumberMultiply(x, 2))
  IN  IF twice % 2 = 0 THEN DecimalDigits(twice \div 2)
      ELSE DecimalDigits(twice \div 2) \o <<".", "5">>

\* estimatedTime: formData.estimatedTime ? parseFloat(...) : undefined
EstimatedTimeOf(str) == IF str = <<>> THEN Undefined ELSE parseFloat(str)

\* what the views show, which neither the task handlers nor the effects of
\* AppContent write
displayVars == <<tz, currentMonth, selectedDate, searchTerm, taskText, str1,
                 str2, distance, analytics, themeVars>>

\* the variables the task handlers leave alone
viewVars == <<displayVars, stored, phase>>

\* updateTasks(newTasks): setTasks, which schedules AppContent's save effect
updateTasks(newTasks) ==
  /\ tasks' = newTasks
  /\ saveDue' = TRUE

\* handleInputChange: one field of the form is typed into
handleInputChange(name, value) ==
  /\ showAddForm
  /\ formData' = [formData EXCEPT ![name] = value]
  /\ event' = NoEvent
  /\ UNCHANGED <<now, tasks, editingTask, showAddForm, saveDue, viewVars>>

\* !formData.title.trim() || !formData.deadline
formIsRejectedUntrimmed == formData.title = <<>> \/ formData.deadline = EmptyDeadline

formIsRejected == trim(formData.title) = <<>> \/ formData.deadline = EmptyDeadline

\* the task handleSubmit builds in add mode
newTask(random) ==
  [id            |-> generateId(random),
   title         |-> trim(formData.title),
   description   |-> trim(formData.description),
   deadline      |-> formData.deadline,
   completed     |-> FALSE,
   createdAt     |-> toISOString(now),
   category      |-> StringOrUndefined(formData.category),
   priority      |-> formData.priority,
   estimatedTime |-> EstimatedTimeOf(formData.estimatedTime)]

\* an edit that also reopens the task
editedTaskReopened(task) ==
  Spread(task,
         [title         |-> trim(formData.title),
          description   |-> trim(formData.description),
          deadline      |-> formData.deadline,
          category      |-> StringOrUndefined(formData.category),
          priority      |-> formData.priority,
          estimatedTime |-> EstimatedTimeOf(formData.estimatedTime),
          completed     |-> FALSE])

\* the task handleSubmit puts in place of the edited one
editedTask(task) ==
  Spread(task,
         [title         |-> trim(formData.title),
          description   |-> trim(formData.description),
          deadline      |-> formData.deadline,
          category      |-> StringOrUndefined(formData.category),
          priority      |-> formData.priority,
          estimatedTime |-> EstimatedTimeOf(formData.estimatedTime)])

\* handleSubmit: the form is submitted, in add or in edit mode
handleSubmit(random) ==
  /\ showAddForm
  /\ IF formIsRejected
    THEN /\ event' = [op |-> "handleSubmit", updateTasksCalled |-> FALSE]
         /\ UNCHANGED <<now, tasks, formData, editingTask, showAddForm, saveDue,
                        viewVars>>
    ELSE /\ IF editingTask # Null
              THEN updateTasks([i \in 1..Len(tasks) |->
                                  IF tasks[i].id = editingTask.id
                                    THEN editedTask(tasks[i]) ELSE tasks[i]])
              ELSE /\ Len(tasks) < MaxTasks
                   /\ updateTasks(Append(tasks, newTask(random)))
         /\ editingTask' = Null
         /\ formData' = EmptyForm
         /\ showAddForm' = FALSE
         /\ event' = [op |-> "handleSubmit", updateTasksCalled |-> TRUE]
         /\ UNCHANGED <<now, viewVars>>

toggledKeepingStamp(task) ==
  Spread(task,
         [completed   |-> ~task.completed,
          completedAt |-> IF ~task.completed THEN toISOString(now)
                          ELSE IF "completedAt" \in DOMAIN task THEN task.completedAt
                          ELSE Undefined])

\* {...task, completed: !task.completed,
\*  completedAt: !task.completed ? new Date().toISOString() : undefined}
toggled(task) ==
  Spread(task,
         [completed   |-> ~task.completed,
          completedAt |-> IF ~task.completed THEN toISOString(now) ELSE Undefined])

\* TaskList.toggleTaskCompletion
toggleTaskCompletion(taskId) ==
  /\ updateTasks([i \in 1..Len(tasks) |->
                    IF tasks[i].id = taskId THEN toggled(tasks[i]) ELSE tasks[i]])
  /\ event' = NoEvent
  /\ UNCHANGED <<now, formData, editingTask, showAddForm, viewVars>>

\* CalendarView.toggleTaskCompletion
calendarToggleTaskCompletion(taskId) ==
  /\ updateTasks([i \in 1..Len(tasks) |->
                    IF tasks[i].id = taskId THEN toggled(tasks[i]) ELSE tasks[i]])
  /\ event' = NoEvent
  /\ UNCHANGED <<now, formData, editingTask, showAddForm, viewVars>>

deleteTaskUnconfirmed(taskId, confirmed) ==
  /\ updateTasks(SelectSeq(tasks, LAMBDA task : task.id # taskId))
  /\ event' = [op |-> "deleteTask", confirmed |-> confirmed]
  /\ UNCHANGED <<now, formData, editingTask, showAddForm, viewVars>>

\* TaskList.deleteTask; confirmed is what window.confirm returns
deleteTask(taskId, confirmed) ==
  /\ IF confirmed
       THEN updateTasks(SelectSeq(tasks, LAMBDA task : task.id # taskId))
       ELSE UNCHANGED <<tasks, saveDue>>
  /\ event' = [op |-> "deleteTask", confirmed |-> confirmed]
  /\ UNCHANGED <<now, formData, editingTask, showAddForm, viewVars>>

\* CalendarView.deleteTask
calendarDeleteTask(taskId, confirmed) ==
  /\ IF confirmed
       THEN updateTasks(SelectSeq(tasks, LAMBDA task : task.id # taskId))
       ELSE UNCHANGED <<tasks, saveDue>>
  /\ event' = [op |-> "deleteTask", confirmed |-> confirmed]
  /\ UNCHANGED <<now, formData, editingTask, showAddForm, viewVars>>

\* task.category || '', as the form holds it
CategoryText(task) ==
  IF "category" \in DOMAIN task /\ task.category # Undefined
    THEN task.category.string ELSE <<>>

\* task.estimatedTime?.toString() || ''
EstimatedTimeText(task) ==
  IF "estimatedTime" \in DOMAIN task /\ task.estimatedTime # Undefined
    THEN NumberToString(task.estimatedTime) ELSE <<>>

\* editTask: the form is opened on a task of the list; of editingTask the
\* handlers read its id and whether it is null
editTask(task) ==
  /\ editingTask' = [id |-> task.id]
  /\ formData' =
       [title         |-> task.title,
        description   |-> task.description,
        deadline      |-> DateInputValue(SplitT0(task.deadline).year,
                                         SplitT0(task.deadline).month,
                                         SplitT0(task.deadline).date),
        category      |-> CategoryText(task),
        priority      |-> task.priority,
        estimatedTime |-> EstimatedTimeText(task)]
  /\ showAddForm' = TRUE
  /\ event' = NoEvent
  /\ UNCHANGED <<now, tasks, saveDue, viewVars>>

\* the "Add Task" button: setShowAddForm(true)
openAddForm ==
  /\ showAddForm' = TRUE
  /\ event' = NoEvent
  /\ UNCHANGED <<now, tasks, formData, editingTask, saveDue, viewVars>>

cancelForm ==
  /\ showAddForm
  /\ showAddForm' = FALSE
  /\ editingTask' = Null
  /\ formData' = EmptyForm
  /\ event' = NoEvent
  /\ UNCHANGED <<now, tasks, saveDue, viewVars>>

clearAllTasks(confirmed) ==
  /\ IF confirmed THEN updateTasks(<<>>) ELSE UNCHANGED <<tasks, saveDue>>
  /\ event' = NoEvent
  /\ UNCHANGED <<now, formData, editingTask, showAddForm, viewVars>>

----------------------------------------------------------------------------
(* utils/sampleData.ts *)

NotCompleted == 0 - 1

\* the draws of Math.random() for one sample task: how many days back it was
\* created, whether it is completed and how long before its deadline, and
\* the suffix of its id
SampleChoices ==
  [createdBack : {0},
   completion  : {NotCompleted, 2 * TicksPerDay},
   random      : RandomSuffixes]

\* the estimated time of a sample task, in hours
SampleEstimatedTime == NumberDivide(1, 1)

\* the i-th task of the loop of generateSampleTasks
sampleTask(i, choice) ==
  LET createdDate  == now - choice.createdBack * TicksPerDay
      deadlineDate == createdDate + TicksPerDay
      isCompleted  == choice.completion # NotCompleted
  IN  [id            |-> generateId(choice.random),
       title         |-> DecimalDigits(i),
       description   |-> <<"d">>,
       deadline      |-> toISOString(deadlineDate),
       completed     |-> isCompleted,
       createdAt     |-> toISOString(createdDate),
       completedAt   |-> IF isCompleted THEN toISOString(deadlineDate - choice.completion)
                         ELSE Undefined,
       category      |-> [string |-> <<"E">>],
       priority      |-> "high",
       estimatedTime |-> SampleEstimatedTime]

\* x put into a list sorted by deadline, after the tasks due no later
InsertByDeadline(sorted, x) ==
  LET k == Cardinality({j \in 1..Len(sorted) :
                          DateParse(sorted[j].deadline) <= DateParse(x.deadline)})
  IN  SubSeq(sorted, 1, k) \o <<x>> \o SubSeq(sorted, k + 1, Len(sorted))

\* tasks.sort((a, b) => deadline of a - deadline of b): a stable sort
RECURSIVE sortByDeadline(_)
sortByDeadline(ts) ==
  IF Len(ts) <= 1 THEN ts
  ELSE InsertByDeadline(sortByDeadline(SubSeq(ts, 1, Len(ts) - 1)), ts[Len(ts)])

generateSampleTasks(choices) ==
  sortByDeadline([i \in 1..SampleCount |-> sampleTask(i, choices[i])])

\* TaskList.resetWithSampleData
resetWithSampleData(confirmed, choices) ==
  /\ IF confirmed THEN updateTasks(generateSampleTasks(choices))
     ELSE UNCHANGED <<tasks, saveDue>>
  /\ event' = NoEvent
  /\ UNCHANGED <<now, formData, editingTask, showAddForm, viewVars>>

----------------------------------------------------------------------------
(* JSON and localStorage (utils/storage.ts) *)

\* what localStorage can hold under 'hackathon-tasks' besides the text of an
\* array of tasks: the empty text, a text JSON.parse rejects, the text "null"
EmptyText == [text |-> "empty"]
Malformed == [text |-> "malformed"]
JsonNullText == [text |-> "null"]

\* !stored: the item is absent or the empty text
Falsy(item) == item = Null \/ item = EmptyText

\* the keys of a Task, the required ones first
TaskKeys ==
  <<"id", "title", "description", "deadline", "completed", "createdAt",
    "priority", "completedAt", "category", "estimatedTime">>

OptionalKeys == {"completedAt", "category", "estimatedTime"}

\* task[key] === undefined
IsUndefined(task, key) ==
  key \notin DOMAIN task \/ (key \in OptionalKeys /\ task[key] = Undefined)

\* the JSON text of one value: a boolean literal, a number or a string
jsonToken(key, value) ==
  IF key = "completed" THEN [literal |-> IF value THEN "true" ELSE "false"]
  ELSE IF key = "estimatedTime" THEN [number |-> NumberToString(value)]
  ELSE [string |-> value]

\* JSON.stringify of a task: the members whose value is undefined are left out
stringifyTask(task) ==
  LET keys == SelectSeq(TaskKeys, LAMBDA key : ~IsUndefined(task, key))
  IN  [j \in 1..Len(keys) |->
         [key |-> keys[j], value |-> jsonToken(keys[j], task[keys[j]])]]

\* JSON.stringify(tasks)
stringify(ts) == [array |-> [i \in 1..Len(ts) |-> stringifyTask(ts[i])]]

\* JSON.parse of one value
parseToken(token) ==
  IF "literal" \in DOMAIN token THEN token.literal = "true"
  ELSE IF "number" \in DOMAIN token THEN parseFloat(token.number)
  ELSE token.string

\* JSON.parse of an object
parseObject(members) ==
  [key \in {members[j].key : j \in DOMAIN members} |->
     parseToken(members[CHOOSE j \in DOMAIN members : members[j].key = key].value)]

\* JSON.parse throws a SyntaxError
parseThrows(item) == item = Malformed

parseReversed(item) ==
  IF item = JsonNullText THEN Null
  ELSE [i \in 1..Len(item.array) |->
          parseObject(item.array[Len(item.array) + 1 - i])]

\* JSON.parse(text), where it does not throw
parse(item) ==
  IF item = JsonNullText THEN Null
  ELSE [i \in 1..Len(item.array) |-> parseObject(item.array[i])]

\* loadTasks: what it returns when localStorage holds item; readFails says
\* that localStorage.getItem throws
loadTasks(item, readFails) ==
  IF readFails \/ Falsy(item) \/ parseThrows(item) THEN <<>> ELSE parse(item)

saveTasksClearing(item, ts, writeFails) ==
  IF writeFails THEN Null ELSE stringify(ts)

\* saveTasks: what localStorage holds afterwards; writeFails says that
\* localStorage.setItem throws
saveTasks(item, ts, writeFails) ==
  IF writeFails THEN item ELSE stringify(ts)

\* a save effect that skips the empty collection
saveEffectWhenNonEmpty(item, ts, writeFails) ==
  IF Len(ts) > 0 THEN saveTasks(item, ts, writeFails) ELSE item

\* the save effect of AppContent, run with the collection ts
saveEffect(item, ts, writeFails) ==
  IF Len(ts) > 0 \/ ~Falsy(item) THEN saveTasks(item, ts, writeFails) ELSE item

\* an initializeSampleData that fills an absent key only
initializeSampleDataWhenAbsent(item, readFails, writeFails, choices) ==
  LET filled == IF writeFails THEN [threw |-> TRUE, item |-> item]
                ELSE [threw |-> FALSE, item |-> stringify(generateSampleTasks(choices))]
  IN  IF readFails THEN [threw |-> TRUE, item |-> item]
      ELSE IF Falsy(item) THEN filled
      ELSE IF parseThrows(item) \/ item = JsonNullText THEN [threw |-> TRUE, item |-> item]
      ELSE [threw |-> FALSE, item |-> item]

\* initializeSampleData, run when localStorage holds item: whether it threw,
\* and what localStorage holds afterwards
initializeSampleData(item, readFails, writeFails, choices) ==
  LET filled == IF writeFails THEN [threw |-> TRUE, item |-> item]
                ELSE [threw |-> FALSE, item |-> stringify(generateSampleTasks(choices))]
  IN  IF readFails THEN [threw |-> TRUE, item |-> item]
      ELSE IF Falsy(item) THEN filled
      ELSE IF parseThrows(item) \/ item = JsonNullText THEN [threw |-> TRUE, item |-> item]
      ELSE IF Len(parse(item)) = 0 THEN filled
      ELSE [threw |-> FALSE, item |-> item]

\* AppContent is mounted: the mount effect runs initializeSampleData and
\* setTasks(loadTasks()), then the save effect runs with the initial empty
\* collection.  An exception of the mount effect is not caught by the
\* application; whether the save effect still runs then is left open.
Mount(readFails, writeFails, choices) ==
  /\ phase = "unmounted"
  /\ \E started \in {initializeSampleData(stored, readFails, writeFails, choices)} :
       IF started.threw
         THEN /\ phase' = "crashed"
              /\ stored' \in {started.item,
                               IF readFails THEN started.item
                               ELSE saveEffect(started.item, <<>>, writeFails)}
              /\ UNCHANGED <<tasks, saveDue>>
         ELSE /\ phase' = "running"
              /\ tasks' = loadTasks(started.item, readFails)
              /\ stored' = saveEffect(started.item, <<>>, writeFails)
              /\ saveDue' = TRUE
  /\ event' = [op |-> "mount", item |-> stored]
  /\ UNCHANGED <<now, formData, editingTask, showAddForm, displayVars>>

\* the save effect of AppContent runs after tasks has changed
SaveEffect(writeFails) ==
  /\ phase = "running"
  /\ saveDue
  /\ stored' = saveEffect(stored, tasks, writeFails)
  /\ saveDue' = FALSE
  /\ event' = IF Len(tasks) > 0 \/ ~Falsy(stored)
                THEN [op |-> "saveTasks", threw |-> writeFails]
                ELSE NoEvent
  /\ UNCHANGED <<now, tasks, formData, editingTask, showAddForm, phase, displayVars>>

\* the page is up and its effects have run: a user event can be handled
Interactive == phase = "running" /\ ~saveDue

----------------------------------------------------------------------------
(* The task list in use *)

TitleInputs == {<<" ">>, <<" ", "a">>}
DeadlineInputs == {DateInputValue(2024, 0, 11)}

Init ==
  /\ tz = 0
  /\ now = AppFirstNow
  /\ tasks = <<>>
  /\ currentMonth = now
  /\ selectedDate = now
  /\ searchTerm = <<>>
  /\ taskText = <<>>
  /\ str1 = <<>>
  /\ str2 = <<>>
  /\ distance = NoValue
  /\ analytics = NoAnalytics
  /\ stored = stringify(<<>>)
  /\ formData = EmptyForm
  /\ editingTask = Null
  /\ showAddForm = FALSE
  /\ saveDue = FALSE
  /\ phase = "running"
  /\ event = NoEvent
  /\ ThemeIdle

\* the handlers of the task list and of the calendar
HandleEvent ==
  \/ Interactive /\ \E value \in TitleInputs : handleInputChange("title", value)
  \/ Interactive /\ \E value \in DeadlineInputs : handleInputChange("deadline", value)
  \/ Interactive /\ \E random \in RandomSuffixes : handleSubmit(random)
  \/ Interactive /\ \E i \in DOMAIN tasks : toggleTaskCompletion(tasks[i].id)
  \/ Interactive /\ \E i \in DOMAIN tasks : calendarToggleTaskCompletion(tasks[i].id)
  \/ Interactive /\ \E i \in DOMAIN tasks : \E confirmed \in BOOLEAN : deleteTask(tasks[i].id, confirmed)
  \/ Interactive /\ \E i \in DOMAIN tasks : \E confirmed \in BOOLEAN : calendarDeleteTask(tasks[i].id, confirmed)
  \/ Interactive /\ \E i \in DOMAIN tasks : editTask(tasks[i])
  \/ Interactive /\ openAddForm
  \/ Interactive /\ cancelForm
  \/ Interactive /\ \E confirmed \in BOOLEAN : clearAllTasks(confirmed)
  \/ Interactive /\ \E confirmed \in BOOLEAN : \E choices \in [1..SampleCount -> SampleChoices] :
                 resetWithSampleData(confirmed, choices)

\* localStorage has room: every write succeeds
Next ==
  \/ SaveEffect(FALSE)
  \/ HandleEvent

Spec == Init /\ [][Next]_vars

----------------------------------------------------------------------------
(* Start-up and persistence *)

EarlierCount == 3

\* the k-th task an earlier session left in localStorage: added through the
\* form k ticks before this session starts
EarlierTask(k) ==
  [id            |-> [time |-> AppFirstNow - k, random |-> 0],
   title         |-> DecimalDigits(k),
   description   |-> <<>>,
   deadline      |-> DateInputValue(2024, 0, 11),
   completed     |-> FALSE,
   createdAt     |-> toISOString(AppFirstNow - k),
   category      |-> IF k = 2 THEN [string |-> <<"E">>] ELSE Undefined,
   priority      |-> "medium",
   estimatedTime |-> IF k = 1 THEN parseFloat(<<"1", ".", "5">>) ELSE Undefined]

EarlierTasks == [k \in 1..EarlierCount |-> EarlierTask(k)]

\* what localStorage holds under the key when the page is opened
StoredAtStart ==
  {Null, EmptyText, Malformed, JsonNullText, stringify(<<>>), stringify(EarlierTasks)}

InitStorage ==
  /\ tz = 0
  /\ now = AppFirstNow
  /\ tasks = <<>>
  /\ currentMonth = now
  /\ selectedDate = now
  /\ searchTerm = <<>>
  /\ taskText = <<>>
  /\ str1 = <<>>
  /\ str2 = <<>>
  /\ distance = NoValue
  /\ analytics = NoAnalytics
  /\ stored \in StoredAtStart
  /\ formData = EmptyForm
  /\ editingTask = Null
  /\ showAddForm = FALSE
  /\ saveDue = FALSE
  /\ phase = "unmounted"
  /\ event = NoEvent
  /\ ThemeIdle

\* the handlers that need no form
HandleListEvent ==
  \/ Interactive /\ \E i \in DOMAIN tasks : toggleTaskCompletion(tasks[i].id)
  \/ Interactive /\ \E i \in DOMAIN tasks : calendarToggleTaskCompletion(tasks[i].id)
  \/ Interactive /\ \E i \in DOMAIN tasks : \E confirmed \in BOOLEAN : deleteTask(tasks[i].id, confirmed)
  \/ Interactive /\ \E i \in DOMAIN tasks : \E confirmed \in BOOLEAN : calendarDeleteTask(tasks[i].id, confirmed)
  \/ Interactive /\ \E confirmed \in BOOLEAN : clearAllTasks(confirmed)
  \/ Interactive /\ \E confirmed \in BOOLEAN : \E choices \in [1..SampleCount -> SampleChoices] :
                 resetWithSampleData(confirmed, choices)

\* the page is reloaded: the component state is gone, localStorage stays, and
\* the application is about to mount again
Reload ==
  /\ Interactive
  /\ phase' = "unmounted"
  /\ tasks' = <<>>
  /\ saveDue' = FALSE
  /\ event' = [op |-> "reload", tasks |-> tasks]
  /\ UNCHANGED <<now, stored, formData, editingTask, showAddForm, displayVars>>

NextStorage ==
  \/ \E readFails, writeFails \in BOOLEAN :
       \E choices \in [1..SampleCount -> SampleChoices] :
         Mount(readFails, writeFails, choices)
  \/ \E writeFails \in BOOLEAN : SaveEffect(writeFails)
  \/ HandleListEvent
  \/ Reload

SpecStorage == InitStorage /\ [][NextStorage]_vars

----------------------------------------------------------------------------
(* Properties of the task collection under its handlers *)

\* a task built by the form: it has no category, a sample task has one
FromForm(task) == task.category = Undefined

\* C13: in every collection the handlers produce (add, edit, toggle, delete,
\* clear-all, sample-reset), a task has a completedAt exactly when it is
\* completed
CompletedAtIffCompleted ==
  \A i \in DOMAIN tasks : tasks[i].completed <=> HasCompletedAt(tasks[i])

\* a task added by the form, completed and set back to pending, beside a
\* completed sample task
ToggledBackBesideCompletedSample ==
  /\ Len(tasks) = 2
  /\ \E i \in DOMAIN tasks :
       /\ FromForm(tasks[i])
       /\ ~tasks[i].completed
       /\ "completedAt" \in DOMAIN tasks[i]
  /\ \E i \in DOMAIN tasks :
       /\ ~FromForm(tasks[i])
       /\ tasks[i].completed
       /\ HasCompletedAt(tasks[i])

\* C14: no two tasks of a collection share an id (generateId returns an id
\* that is not already in the collection)
IdsAreUnique ==
  \A i, j \in DOMAIN tasks : i # j => tasks[i].id # tasks[j].id

\* C15: every task that has a completedAt was created no later than it was
\* completed, in every collection the handlers and the sample generator
\* produce
CreatedBeforeCompleted ==
  \A i \in DOMAIN tasks :
    HasCompletedAt(tasks[i]) =>
      DateParse(tasks[i].createdAt) <= DateParse(tasks[i].completedAt)

\* the title typed into the form is empty or holds nothing but spaces
BlankTitle == \A k \in 1..Len(formData.title) : formData.title[k] = " "

\* C17: a submission of the form with an empty or whitespace-only title, or
\* without a deadline, is rejected in add and in edit mode: updateTasks is
\* not called and the collection is unchanged
RejectedSubmitChangesNothing ==
  [][(event'.op = "handleSubmit" /\ (BlankTitle \/ formData.deadline = EmptyDeadline))
       => (~event'.updateTasksCalled /\ tasks' = tasks /\ saveDue' = saveDue)]_vars

\* in edit mode, a title of one space has just been submitted with a deadline
BlankTitleSubmittedInEditMode ==
  /\ event = [op |-> "handleSubmit", updateTasksCalled |-> FALSE]
  /\ editingTask # Null
  /\ formData.title = <<" ">>
  /\ formData.deadline # EmptyDeadline

----------------------------------------------------------------------------
(* Properties of deletion, start-up and persistence *)

\* ts without its tasks of the given id, the others in their order
RECURSIVE Without(_, _)
Without(ts, taskId) ==
  IF ts = <<>> THEN <<>>
  ELSE IF ts[Len(ts)].id = taskId THEN Without(SubSeq(ts, 1, Len(ts) - 1), taskId)
  ELSE Append(Without(SubSeq(ts, 1, Len(ts) - 1), taskId), ts[Len(ts)])

\* C16: deleteTask (list and calendar) leaves the collection unchanged when
\* the confirmation is declined; when it is accepted, the task of the given
\* id is removed, one task where ids are unique, and every other task stays,
\* unchanged and in the same order
DeleteOnlyOnConfirm ==
  [][event'.op = "deleteTask" =>
       IF event'.confirmed
         THEN \E i \in DOMAIN tasks :
                /\ tasks' = Without(tasks, tasks[i].id)
                /\ IdsAreUnique => Len(tasks') = Len(tasks) - 1
         ELSE tasks' = tasks]_vars

\* of the three tasks of the earlier session the second has just been deleted
MiddleTaskDeleted ==
  /\ event = [op |-> "deleteTask", confirmed |-> TRUE]
  /\ Len(tasks) = 2
  /\ tasks[1].id = EarlierTask(1).id
  /\ tasks[2].id = EarlierTask(3).id

\* C18: start-up (initializeSampleData, then loadTasks) raises no uncaught
\* exception, whatever localStorage holds and also when reading it fails
StartUpNeverRaises == phase # "crashed"

\* C19: when the write of saveTasks fails, the exception is caught and the
\* save is not tried again, the collection in memory keeps the value the
\* user action gave it, and localStorage keeps what it held
FailedSaveIsDropped ==
  [][(saveDue /\ event'.op = "saveTasks" /\ event'.threw)
       => /\ ~saveDue'
          /\ phase' = "running"
          /\ tasks' = tasks
          /\ stored' = stored]_vars

\* the save that followed a deletion has failed: two tasks in memory, the
\* three of the earlier session in localStorage
SaveFailedAfterDelete ==
  /\ event = [op |-> "saveTasks", threw |-> TRUE]
  /\ Len(tasks) = 2
  /\ stored = stringify(EarlierTasks)

\* a and b have the same length and, task by task, the same fields with
\* the same values; a field absent from b is absent from a
SameTasks(a, b) ==
  /\ Len(a) = Len(b)
  /\ \A i \in 1..Len(b) : \A k \in 1..Len(TaskKeys) :
       \E key \in {TaskKeys[k]} :
         /\ IsUndefined(a[i], key) <=> IsUndefined(b[i], key)
         /\ ~IsUndefined(b[i], key) => a[i][key] = b[i][key]
         /\ key \notin DOMAIN b[i] => key \notin DOMAIN a[i]

\* C20: saveTasks followed by loadTasks returns a collection equal to the
\* saved one: same length and order, same ids and field values, absent
\* optional fields still absent
SaveThenLoadIsIdentity ==
  event = [op |-> "saveTasks", threw |-> FALSE] =>
    SameTasks(loadTasks(stored, FALSE), tasks)

\* the tasks of the earlier session, one of them completed in this session,
\* have just been saved: an estimated time of 1.5 hours, a category, absent
\* optional fields and a completedAt are in the text
MixedTasksSaved ==
  /\ event = [op |-> "saveTasks", threw |-> FALSE]
  /\ Len(tasks) = EarlierCount
  /\ tasks[1].estimatedTime = parseFloat(<<"1", ".", "5">>)
  /\ tasks[2].category = [string |-> <<"E">>]
  /\ \E i \in DOMAIN tasks : tasks[i].completed /\ HasCompletedAt(tasks[i])
  /\ \E i \in DOMAIN tasks : "completedAt" \notin DOMAIN tasks[i]

----------------------------------------------------------------------------
(* The filtered list of TaskList *)

\* useState<TaskFilter>('all') and useState<TaskSort>('deadline')
filter == "all"
sort == "deadline"

\* filterTasks, for the filters that do not look at the calendar
filterTasks(ts, flt) ==
  IF flt = "pending" THEN SelectSeq(ts, LAMBDA task : ~task.completed)
  ELSE IF flt = "completed" THEN SelectSeq(ts, LAMBDA task : task.completed)
  ELSE IF flt = "overdue" THEN SelectSeq(ts, LAMBDA task : isOverdue(task))
  ELSE ts

\* sortTasks, for the orders by deadline and as given
sortTasks(ts, srt) == IF srt = "deadline" THEN sortByDeadline(ts) ELSE ts

\* TaskList.filteredAndSortedTasks
filteredAndSortedTasks ==
  LET filtered == filterTasks(tasks, filter)
  IN  sortTasks(IF searchTerm # <<>>
                  THEN SelectSeq(filtered,
                                 LAMBDA task : \/ fuzzySearch(searchTerm, task.title)
                                               \/ fuzzySearch(searchTerm, task.description))
                  ELSE filtered,
                sort)

\* a task as the form builds it, with the given title, description and
\* category
SearchedTask(k, title, description, category) ==
  [id            |-> [time |-> FirstNow, random |-> k],
   title         |-> title,
   description   |-> description,
   deadline      |-> DateInputValue(2024, 0, 11),
   completed     |-> FALSE,
   createdAt     |-> toISOString(FirstNow),
   category      |-> StringOrUndefined(category),
   priority      |-> "medium",
   estimatedTime |-> Undefined]

\* the collections searched
SearchedLists ==
  {<<SearchedTask(1, <<"t", "e", "s", "t">>, <<>>, <<>>),
     SearchedTask(2, <<"s", "e", "t">>, <<"t", "e", "s", "t", "s", ".">>, <<>>)>>,
   <<SearchedTask(1, <<"s", "e", "t">>, <<>>, <<"t", "e", "s", "t">>),
     SearchedTask(2, <<"t", "e", "e">>, <<"s", "e", "t">>, <<"s", "e", "t">>)>>,
   <<SearchedTask(1, <<"t", "e", "e">>, <<"e", ".", "t">>, <<"T", "e", "s", "t">>)>>}

InitFilter ==
  /\ tz = 0
  /\ now = FirstNow
  /\ tasks \in SearchedLists
  /\ currentMonth = now
  /\ selectedDate = now
  /\ searchTerm = <<>>
  /\ taskText = <<>>
  /\ str1 = <<>>
  /\ str2 = <<>>
  /\ distance = NoValue
  /\ AppIdle

SpecFilter == InitFilter /\ [][NextSearch]_vars

\* C21: with a non-empty search term, a task is in the filtered list when
\* the term matches its title, its description or its category
SearchIsMultiField ==
  searchTerm # <<>> =>
    \A i \in DOMAIN tasks :
      (\/ fuzzySearch(searchTerm, tasks[i].title)
       \/ fuzzySearch(searchTerm, tasks[i].description)
       \/ (CategoryText(tasks[i]) # <<>>
             /\ fuzzySearch(searchTerm, CategoryText(tasks[i]))))
        => \E j \in DOMAIN filteredAndSortedTasks :
             filteredAndSortedTasks[j] = tasks[i]

----------------------------------------------------------------------------
(* The calendar grid: the cells of the adjacent months *)

LeadingCells == Cardinality(CellsOf(renderCalendar, "prev-month"))
TrailingCells == Cardinality(CellsOf(renderCalendar, "next-month"))

\* C22 as stated: the grid shows at least one full row (7 cells) of
\* adjacent-month days before the current month and at least one full row
\* after it, and at most two rows on each side
FullAdjacentRowOnEachSide ==
  /\ LeadingCells \in 7..14
  /\ TrailingCells \in 7..14

\* C22: the leading cells number the weekday of the 1st (0 to 6, never a
\* full row), the trailing cells fill the grid up to 42 (5 to 14 cells, at
\* most two rows), and the adjacent-month cells together number between 11
\* and 14
AdjacentCellsFillSixWeeks ==
  \A y \in {getFullYear(currentMonth)} : \A mo \in {getMonth(currentMonth)} :
    /\ LeadingCells = getDay(NewDate(y, mo, 1))
    /\ LeadingCells \in 0..6
    /\ TrailingCells = 42 - LeadingCells - DaysOfMonth(y, mo)
    /\ TrailingCells \in 5..14
    /\ LeadingCells + TrailingCells \in 11..14

\* C22 witness: the grid of a month of 31 days that starts on a Sunday has
\* no leading cell and eleven trailing cells
MonthStartingOnSundayShown ==
  /\ getDay(NewDate(getFullYear(currentMonth), getMonth(currentMonth), 1)) = 0
  /\ LeadingCells = 0
  /\ TrailingCells = 11

----------------------------------------------------------------------------
(* Persistence of the collection in use *)

\* C23: after every user action that changes the collection and the save
\* effect that follows it, the write succeeding, the value stored under
\* 'hackathon-tasks' is the serialization of the whole in-memory collection,
\* the empty collection included
StoredIsWholeCollection == Interactive => stored = stringify(tasks)

\* C23 witness: the collection has been emptied and the save effect has run
EmptiedCollectionSaved ==
  /\ Interactive
  /\ event = [op |-> "saveTasks", threw |-> FALSE]
  /\ tasks = <<>>
  /\ stored = stringify(<<>>)

----------------------------------------------------------------------------
(* What edit and toggle leave alone *)

CompletedAtOf(task) ==
  IF "completedAt" \in DOMAIN task THEN task.completedAt ELSE Undefined

\* the step leaves ids, createdAt, number and order alone and changes no
\* task of another id than taskId, one task at most where ids are unique
OnlyTargetChanges(taskId) ==
  /\ Len(tasks') = Len(tasks)
  /\ \A i \in DOMAIN tasks :
       /\ tasks'[i].id = tasks[i].id
       /\ tasks'[i].createdAt = tasks[i].createdAt
       /\ tasks[i].id # taskId => tasks'[i] = tasks[i]
  /\ IdsAreUnique =>
       Cardinality({i \in DOMAIN tasks : tasks'[i] # tasks[i]}) <= 1

\* C24: editing a task through the form and toggling a task's completion
\* never change any task's id or createdAt, nor the number or order of
\* tasks, and leave every task other than the targeted one unchanged; an
\* edit also leaves the target's completed and completedAt unchanged
EditAndToggleFrame ==
  [][/\ (Interactive /\ showAddForm /\ editingTask # Null
           /\ event' = [op |-> "handleSubmit", updateTasksCalled |-> TRUE])
          => /\ OnlyTargetChanges(editingTask.id)
             /\ \A i \in DOMAIN tasks :
                  /\ tasks'[i].completed = tasks[i].completed
                  /\ CompletedAtOf(tasks'[i]) = CompletedAtOf(tasks[i])
     /\ \A i \in DOMAIN tasks :
          (Interactive /\ (\/ toggleTaskCompletion(tasks[i].id)
                           \/ calendarToggleTaskCompletion(tasks[i].id)))
            => OnlyTargetChanges(tasks[i].id)]_vars

\* C24 witness: the first of two tasks, a completed sample task, has been
\* given the title "a" through the form and is still completed
CompletedSampleEdited ==
  /\ event = [op |-> "handleSubmit", updateTasksCalled |-> TRUE]
  /\ Len(tasks) = 2
  /\ tasks[1].title = <<"a">>
  /\ tasks[1].description = <<"d">>
  /\ tasks[1].completed
  /\ CompletedAtOf(tasks[1]) # Undefined

----------------------------------------------------------------------------
(* The mount sequence *)

\* the text is that of a non-empty array
HoldsTasks(item) ==
  /\ ~Falsy(item)
  /\ ~parseThrows(item)
  /\ item # JsonNullText
  /\ Len(parse(item)) > 0

\* the collections a load of freshly written sample tasks gives
LoadedSamples ==
  {parse(stringify(generateSampleTasks(choices))) :
     choices \in [1..SampleCount -> SampleChoices]}

\* C25: at mount, once the effects have run with the writes succeeding, an
\* absent key or an empty array has given way to the generated sample tasks,
\* in storage and in memory; a non-empty array is in storage as it was and
\* is the in-memory collection
MountLoadsOrSeeds ==
  [][(event.op = "mount" /\ SaveEffect(FALSE)) =>
       IF event.item \in {Null, stringify(<<>>)}
         THEN /\ tasks' \in LoadedSamples
              /\ Len(tasks') = SampleCount
              /\ stored' = stringify(tasks')
         ELSE HoldsTasks(event.item) =>
                /\ stored' = event.item
                /\ tasks' = parse(event.item)]_vars

\* C25 witness: the application has mounted on an empty array and holds the
\* sample tasks
SeededFromEmptyArray ==
  /\ phase = "running"
  /\ event = [op |-> "mount", item |-> stringify(<<>>)]
  /\ tasks \in LoadedSamples

----------------------------------------------------------------------------
(* The insight cards of AnalyticsView *)

\* x > k for a Number x and an integer k >= 0
GreaterThan(x, k) ==
  /\ x # Zero
  /\ x.sign = 1
  /\ IF x.exp < 0 THEN k = 0
     ELSE LET whole[i \in 0..(x.exp + 1)] ==
                IF i = 0 THEN 0 ELSE 2 * whole[i - 1] + x.bits[i]
              fraction == \E i \in (x.exp + 2)..MantissaBits : x.bits[i] = 1
          IN  whole[x.exp + 1] > k \/ (whole[x.exp + 1] = k /\ fraction)

\* the cards of the completion bands, by their headings
CompletionBandCards ==
  {"Task Master!", "Excellent Progress!", "Good Progress!", "Making Progress!",
   "Getting Started!", "Ready to Begin!", "Fresh Start!"}

\* the insight cards rendered for the analytics a, by their headings
insights(a) ==
  {card \in CompletionBandCards \cup
            {"Overdue Alert!", "Overdue Tasks Alert", "Slow and Steady",
             "Completion Time", "Speed Demon!", "On Fire!", "Great Week!"} :
     \/ card = "Task Master!" /\ a.completionRate >= 90
     \/ card = "Excellent Progress!" /\ a.completionRate >= 80 /\ a.completionRate < 90
     \/ card = "Good Progress!" /\ a.completionRate >= 60 /\ a.completionRate < 80
     \/ card = "Making Progress!" /\ a.completionRate >= 40 /\ a.completionRate < 60
     \/ card = "Getting Started!" /\ a.completionRate > 0 /\ a.completionRate < 40
     \/ card = "Overdue Alert!" /\ a.overdueRate > 30
     \/ card = "Overdue Tasks Alert" /\ a.overdueRate > 20 /\ a.overdueRate <= 30
     \/ card = "Slow and Steady" /\ GreaterThan(a.avgCompletionTime, 14)
     \/ card = "Completion Time" /\ GreaterThan(a.avgCompletionTime, 7)
                                 /\ ~GreaterThan(a.avgCompletionTime, 14)
     \/ card = "Speed Demon!" /\ ~GreaterThan(a.avgCompletionTime, 3) /\ a.completed > 0
     \/ card = "Ready to Begin!" /\ a.total = 0
     \/ card = "Fresh Start!" /\ a.completed = 0 /\ a.total > 0
     \/ card = "On Fire!" /\ a.recentlyCompleted >= 5
     \/ card = "Great Week!" /\ a.recentlyCompleted >= 3 /\ a.recentlyCompleted < 5}

\* C26: for every analytics snapshot exactly one card of the completion
\* bands is rendered: the card of the band completionRate falls in, and for
\* completionRate 0 the card "Ready to Begin" when total = 0 and the card
\* "Fresh Start" when total > 0
OneCompletionBandCard ==
  analytics # NoAnalytics =>
    /\ Cardinality(insights(analytics) \cap CompletionBandCards) = 1
    /\ analytics.completionRate = 0 =>
         IF analytics.total = 0
           THEN "Ready to Begin!" \in insights(analytics)
           ELSE "Fresh Start!" \in insights(analytics)

----------------------------------------------------------------------------
(* The theme: ThemeProvider *)

\* what 'task-manager-theme' may hold when the application starts: nothing,
\* the empty text, a theme, or a text written by something else
SavedThemes ==
  {Null, [value |-> ""], [value |-> "light"], [value |-> "dark"],
   [value |-> "auto"], [value |-> "Dark"]}

MediaPreferences == {"unsupported", "dark", "no-preference"}

\* the initializer of useState<Theme>: savedTheme when truthy, else 'dark'
\* when matchMedia exists and matches, else 'light'
initialTheme(saved, prefers) ==
  IF saved # Null /\ saved.value # "" THEN saved.value
  ELSE IF prefers = "dark" THEN "dark"
  ELSE "light"

\* the variables ThemeProvider leaves alone
themeFrame == <<tz, now, tasks, currentMonth, selectedDate, searchTerm, taskText,
                str1, str2, distance, analytics, stored, formData, editingTask,
                showAddForm, saveDue, event>>

\* the effect of ThemeProvider runs after theme has changed; writeFails says
\* that localStorage.setItem throws, which nothing catches
ThemeEffect(writeFails) ==
  /\ phase = "running"
  /\ themeEffectDue
  /\ themeEffectDue' = FALSE
  /\ IF writeFails
       THEN /\ phase' = "crashed"
            /\ UNCHANGED <<savedTheme, dataTheme>>
       ELSE /\ savedTheme' = [value |-> theme]
            /\ dataTheme' = [value |-> theme]
            /\ UNCHANGED phase
  /\ UNCHANGED <<theme, prefersDark, themeFrame>>

\* toggleTheme: setTheme(prevTheme => prevTheme === 'light' ? 'dark' : 'light')
toggleTheme ==
  /\ phase = "running"
  /\ ~themeEffectDue
  /\ theme' = IF theme = "light" THEN "dark" ELSE "light"
  /\ themeEffectDue' = TRUE
  /\ UNCHANGED <<savedTheme, dataTheme, prefersDark, phase, themeFrame>>

\* the page is reloaded: ThemeProvider is constructed again
ReloadTheme ==
  /\ phase = "crashed" \/ ~themeEffectDue
  /\ theme' = initialTheme(savedTheme, prefersDark)
  /\ dataTheme' = Null
  /\ themeEffectDue' = TRUE
  /\ phase' = "running"
  /\ UNCHANGED <<savedTheme, prefersDark, themeFrame>>

\* the user switches the colour scheme of the system; ThemeProvider does not
\* listen to the media query
SystemPreferenceChanges(prefers) ==
  /\ prefersDark \notin {"unsupported", prefers}
  /\ prefersDark' = prefers
  /\ UNCHANGED <<theme, savedTheme, dataTheme, themeEffectDue, phase, themeFrame>>

\* the user clears the site's data in the browser: localStorage is emptied
\* under the running page
ClearSiteData ==
  /\ savedTheme # Null
  /\ savedTheme' = Null
  /\ stored' = Null
  /\ UNCHANGED <<theme, dataTheme, prefersDark, themeEffectDue, phase, tz, now,
                 tasks, currentMonth, selectedDate, searchTerm, taskText, str1,
                 str2, distance, analytics, formData, editingTask, showAddForm,
                 saveDue, event>>

InitTheme ==
  /\ tz = 0
  /\ now = FirstNow
  /\ tasks = <<>>
  /\ currentMonth = now
  /\ selectedDate = now
  /\ searchTerm = <<>>
  /\ taskText = <<>>
  /\ str1 = <<>>
  /\ str2 = <<>>
  /\ distance = NoValue
  /\ analytics = NoAnalytics
  /\ stored = Null
  /\ formData = EmptyForm
  /\ editingTask = Null
  /\ showAddForm = FALSE
  /\ saveDue = FALSE
  /\ phase = "running"
  /\ event = NoEvent
  /\ savedTheme \in SavedThemes
  /\ prefersDark \in MediaPreferences
  /\ theme = initialTheme(savedTheme, prefersDark)
  /\ dataTheme = Null
  /\ themeEffectDue = TRUE

NextTheme ==
  \/ \E writeFails \in BOOLEAN : ThemeEffect(writeFails)
  \/ toggleTheme
  \/ ReloadTheme
  \/ \E prefers \in {"dark", "no-preference"} : SystemPreferenceChanges(prefers)
  \/ ClearSiteData

SpecTheme == InitTheme /\ [][NextTheme]_vars

\* C27: the theme ThemeProvider starts with is the value persisted under
\* 'task-manager-theme' when present, otherwise 'dark' when the system
\* prefers dark, otherwise 'light'; every toggleTheme switches the theme to
\* the other of 'light' and 'dark'; after each change the persisted value
\* equals the current theme; the theme is always 'light' or 'dark'
ThemeIsPersistedLightOrDark ==
  [][/\ theme' \in {"light", "dark"}
     /\ ReloadTheme =>
          theme' = (IF savedTheme # Null THEN savedTheme.value
                    ELSE IF prefersDark = "dark" THEN "dark"
                    ELSE "light")
     /\ toggleTheme =>
          /\ theme \in {"light", "dark"}
          /\ theme' \in {"light", "dark"} \ {theme}
     /\ (themeEffectDue /\ ~themeEffectDue') =>
          savedTheme' = [value |-> theme']]_vars

----------------------------------------------------------------------------
(* Storage during and across mounts *)

\* C28: during mount a non-empty collection persisted under
\* 'hackathon-tasks' is never overwritten: in every state of the mount
\* sequence, before the save effect of the loaded collection has run,
\* storage holds the collection that was persisted
MountKeepsStoredCollection ==
  (event.op = "mount" /\ HoldsTasks(event.item)) => stored = event.item

\* C29: after user actions whose writes succeeded, reloading the application
\* yields an in-memory collection equal to the one held before the reload,
\* also when the user has deleted the last task or cleared all tasks
ReloadRestoresCollection ==
  [][(/\ event.op = "reload"
      /\ stored = stringify(event.tasks)
      /\ \E choices \in [1..SampleCount -> SampleChoices] : Mount(FALSE, FALSE, choices))
       => SameTasks(tasks', event.tasks)]_vars

----------------------------------------------------------------------------
(* Editing without a change *)

\* the form as editTask fills it for the task
UntouchedForm(task) ==
  [title         |-> task.title,
   description   |-> task.description,
   deadline      |-> DateInputValue(SplitT0(task.deadline).year,
                                    SplitT0(task.deadline).month,
                                    SplitT0(task.deadline).date),
   category      |-> CategoryText(task),
   priority      |-> task.priority,
   estimatedTime |-> EstimatedTimeText(task)]

\* C30: opening the edit form for a task and submitting it without changing
\* any field leaves the collection unchanged: every field of that task, the
\* full deadline timestamp, priority and estimatedTime included, keeps its
\* value
UnchangedEditKeepsTask ==
  [][\A i \in DOMAIN tasks :
       (/\ Interactive
        /\ showAddForm
        /\ editingTask = [id |-> tasks[i].id]
        /\ formData = UntouchedForm(tasks[i])
        /\ event' = [op |-> "handleSubmit", updateTasksCalled |-> TRUE])
         => SameTasks(tasks', tasks)]_vars

====
